---- MODULE Spec2Model ----
(***************************************************************************)
(* Model of geoopt/utils.py: dimension index normalisation (idx2sign,      *)
(* canonical_dims, reduce_dim, drop_dims), shape broadcasting              *)
(* (broadcast_shapes) and unwrapping of Scaled manifolds (ismanifold,      *)
(* canonical_manifold).                                                    *)
(*                                                                         *)
(* A behaviour is one call of one function: the call action draws the      *)
(* arguments, the function's code runs (in one step for the loop-free      *)
(* functions, statement by statement for the two while loops) and the      *)
(* returned value or the raised exception is left in ret.                  *)
(***************************************************************************)
EXTENDS Integers, Sequences, FiniteSets, TLC

VARIABLES fn, pc, args, locals, ret

vars == <<fn, pc, args, locals, ret>>

(***************************************************************************)
(* Bounds of the model.                                                    *)
(***************************************************************************)
\* largest rank given to idx2sign and reduce_dim
MaxDim == 4
\* longest tuple or list of explicit axes given to reduce_dim
MaxAxes == 2

(***************************************************************************)
(* Python values: None, int, tuple, list, and a raised exception.          *)
(***************************************************************************)
PyNone == [t |-> "None"]

PyInt(i) == [t |-> "int", v |-> i]

PyTuple(s) == [t |-> "tuple", v |-> s]

PyList(s) == [t |-> "list", v |-> s]

Raise(e) == [t |-> "raise", v |-> e]

\* Python's a % b on ints: the result takes the sign of the divisor b.
PyMod(a, b) ==
    IF b > 0 THEN a % b ELSE -((-a) % (-b))

\* sequence s without its i-th element (1-based)
SeqDel(s, i) ==
    [k \in 1..(Len(s) - 1) |-> IF k < i THEN s[k] ELSE s[k + 1]]

\* axis references valid for rank r
AxisRefs(r) == (-r)..(r - 1)

\* all sequences over S of length at most n
SeqsUpTo(S, n) == UNION {[1..k -> S] : k \in 0..n}

(***************************************************************************)
(* idx2sign, canonical_dims                                                *)
(***************************************************************************)
idx2sign_DimMod(idx, dim, neg) ==
    IF neg
    THEN IF idx < 0 THEN idx ELSE PyMod(idx + 1, -dim)
    ELSE PyMod(idx, dim)

idx2sign_NoPlusOne(idx, dim, neg) ==
    IF neg
    THEN IF idx < 0 THEN idx ELSE PyMod(idx, -(dim + 1))
    ELSE PyMod(idx, dim)

idx2sign(idx, dim, neg) ==
    IF neg
    THEN IF idx < 0 THEN idx ELSE PyMod(idx + 1, -(dim + 1))
    ELSE PyMod(idx, dim)

canonical_dims_Neg(dims, maxdim) ==
    [k \in 1..Len(dims) |-> idx2sign(dims[k], maxdim, TRUE)]

canonical_dims(dims, maxdim) ==
    [k \in 1..Len(dims) |-> idx2sign(dims[k], maxdim, FALSE)]

(***************************************************************************)
(* strip_tuple, make_tuple, size2shape, reduce_dim                         *)
(***************************************************************************)
\* tup is the Python tuple itself, as the sequence of its elements
strip_tuple(tup) ==
    IF Len(tup) = 1 THEN tup[1] ELSE PyTuple(tup)

make_tuple(obj) ==
    IF obj.t # "tuple" THEN PyTuple(<<obj>>) ELSE obj

\* size is the tuple of the positional arguments (*size)
size2shape(size) ==
    make_tuple(strip_tuple(size))

\* del lst[i] on a list of length n
PyDel(lst, i) ==
    IF i.t # "int"
    THEN Raise("TypeError")
    ELSE IF i.v < -Len(lst) \/ i.v >= Len(lst)
         THEN Raise("IndexError")
         ELSE PyList(SeqDel(lst, PyMod(i.v, Len(lst)) + 1))

reduce_dim_DimFirst(maxdim, reducedim, dim) ==
    IF reducedim = PyNone \/ dim # PyNone
    THEN PyDel([k \in 1..maxdim |-> PyInt(k - 1)], dim)
    ELSE size2shape(<<reducedim>>)

reduce_dim(maxdim, reducedim, dim) ==
    IF reducedim = PyNone
    THEN PyDel([k \in 1..maxdim |-> PyInt(k - 1)], dim)
    ELSE size2shape(<<reducedim>>)

(***************************************************************************)
(* Initial state: no call made yet.                                        *)
(***************************************************************************)
Init ==
    /\ fn = "none"
    /\ pc = "idle"
    /\ args = <<>>
    /\ locals = [depth |-> 0]
    /\ ret = PyNone

(***************************************************************************)
(* Calls of idx2sign.  A caller may feed the index it got back into a      *)
(* second call for the same rank (sign conversion round trip).             *)
(***************************************************************************)
Idx2sign ==
    /\ pc = "idle"
    /\ \E dim \in 1..MaxDim, idx \in (-MaxDim)..(MaxDim - 1), neg \in BOOLEAN :
          /\ args' = [idx |-> idx, dim |-> dim, neg |-> neg]
          /\ ret' = idx2sign(idx, dim, neg)
    /\ fn' = "idx2sign"
    /\ pc' = "done"
    /\ locals' = [depth |-> 1]

Idx2signAgain ==
    /\ pc = "done"
    /\ fn = "idx2sign"
    /\ locals.depth = 1
    /\ \E neg \in BOOLEAN :
          /\ args' = [idx |-> ret, dim |-> args.dim, neg |-> neg]
          /\ ret' = idx2sign(ret, args.dim, neg)
    /\ locals' = [depth |-> 2, first |-> args]
    /\ UNCHANGED <<fn, pc>>

NextIdx ==
    \/ Idx2sign
    \/ Idx2signAgain

SpecIdx == Init /\ [][NextIdx]_vars

\* C7: for 0 <= idx < dim, idx2sign(idx, dim, neg=True) is idx - dim, the
\* negative index of the same axis, which lies in [-dim, -1].
C7_NegativeFormIsIdxMinusDim ==
    (/\ fn = "idx2sign"
     /\ locals.depth = 1
     /\ args.neg
     /\ 0 <= args.idx
     /\ args.idx < args.dim)
        => (ret = args.idx - args.dim /\ ret \in (-args.dim)..(-1))

\* rank 3: 2 -> -1
C7_Witness ==
    /\ fn = "idx2sign"
    /\ locals.depth = 1
    /\ args = [idx |-> 2, dim |-> 3, neg |-> TRUE]
    /\ ret = -1

\* C6: for a valid index i of rank r, converting i to negative form and the
\* result to non-negative form gives what converting i to non-negative form
\* gives: the non-negative index of the axis i refers to.
C6_RoundTripSameAxis ==
    (/\ fn = "idx2sign"
     /\ locals.depth = 2
     /\ locals.first.neg
     /\ ~args.neg
     /\ locals.first.idx \in AxisRefs(args.dim))
        => /\ ret = idx2sign(locals.first.idx, args.dim, FALSE)
           /\ ret = IF locals.first.idx < 0
                    THEN locals.first.idx + args.dim
                    ELSE locals.first.idx

\* rank 3: 1 -> -2 -> 1
C6_Witness ==
    /\ fn = "idx2sign"
    /\ locals.depth = 2
    /\ locals.first = [idx |-> 1, dim |-> 3, neg |-> TRUE]
    /\ args = [idx |-> -2, dim |-> 3, neg |-> FALSE]
    /\ ret = 1

(***************************************************************************)
(* Calls of reduce_dim.                                                    *)
(***************************************************************************)
PyInts(s) == [k \in 1..Len(s) |-> PyInt(s[k])]

\* what a caller passes as reducedim: None, an int, a tuple or a list
ReducedimArgs(r) ==
    {PyNone}
        \cup {PyInt(i) : i \in AxisRefs(r)}
        \cup {PyTuple(PyInts(s)) : s \in SeqsUpTo(AxisRefs(r), MaxAxes)}
        \cup {PyList(PyInts(s)) : s \in SeqsUpTo(AxisRefs(r), MaxAxes)}

DimArgs(r) == {PyNone} \cup {PyInt(i) : i \in AxisRefs(r)}

ReduceDim ==
    /\ pc = "idle"
    /\ \E maxdim \in 1..MaxDim :
          \E reducedim \in ReducedimArgs(maxdim), dim \in DimArgs(maxdim) :
             /\ args' = [maxdim |-> maxdim, reducedim |-> reducedim, dim |-> dim]
             /\ ret' = reduce_dim(maxdim, reducedim, dim)
    /\ fn' = "reduce_dim"
    /\ pc' = "done"
    /\ locals' = [depth |-> 1]

NextReduce ==
    ReduceDim

SpecReduce == Init /\ [][NextReduce]_vars

\* the ints of an int or of a tuple of ints, in order
AxesOf(x) ==
    IF x.t = "int" THEN <<x.v>> ELSE [k \in 1..Len(x.v) |-> x.v[k].v]

ExplicitAxesGiven ==
    /\ fn = "reduce_dim"
    /\ args.reducedim.t \in {"int", "tuple"}

\* C5 as stated: with explicit axes, reduce_dim returns them resolved to
\* non-negative form in [0, maxdim - 1], in input order, whatever dim is.
C5_ReturnsResolvedAxes ==
    ExplicitAxesGiven
        => /\ ret.t = "tuple"
           /\ AxesOf(ret) = canonical_dims(AxesOf(args.reducedim), args.maxdim)

\* C5 amended: with explicit axes (an int or a tuple of ints), reduce_dim
\* returns the tuple of exactly those ints, in input order and with their
\* signs as given, whatever dim is.
C5_ReturnsExplicitAxesAsGiven ==
    ExplicitAxesGiven
        => /\ ret.t = "tuple"
           /\ AxesOf(ret) = AxesOf(args.reducedim)

\* rank 3, explicit axis -1, dim 0: the result is (-1,)
C5_Witness ==
    /\ fn = "reduce_dim"
    /\ args = [maxdim |-> 3, reducedim |-> PyInt(-1), dim |-> PyInt(0)]
    /\ ret = PyTuple(<<PyInt(-1)>>)

(***************************************************************************)
(* broadcast_shapes.  A shape is a tuple of ints >= 0, written as the      *)
(* sequence of its sizes; the result is PyTuple of such a sequence, or the *)
(* raised ValueError.                                                      *)
(***************************************************************************)
\* largest axis size of a shape given to broadcast_shapes
MaxSize == 5
\* largest number of axes of one shape given to broadcast_shapes
MaxRank == 2
\* largest number of shapes in one call of broadcast_shapes
MaxShapes == 3
\* largest number of axes of all the shapes of one call together
MaxTotalAxes == 4

Max(S) == CHOOSE x \in S : \A y \in S : y <= x

reversed(s) == [k \in 1..Len(s) |-> s[Len(s) + 1 - k]]

\* zip_longest(*seqs, fillvalue=fill): one tuple per position, as long as
\* the longest of seqs; no tuple at all when seqs is empty
zip_longest(seqs, fill) ==
    LET n == IF seqs = <<>> THEN 0 ELSE Max({Len(seqs[i]) : i \in 1..Len(seqs)})
    IN  [p \in 1..n |->
            [i \in 1..Len(seqs) |->
                IF p <= Len(seqs[i]) THEN seqs[i][p] ELSE fill]]

\* the tuples the outer loop runs over: the shapes aligned at their last axis
AlignedDims_NotReversed(shapes) ==
    zip_longest(shapes, 1)

AlignedDims(shapes) ==
    zip_longest([i \in 1..Len(shapes) |-> reversed(shapes[i])], 1)

\* the inner loop over dims from its k-th element on, dim being the local
RECURSIVE DimLoop(_, _, _)
DimLoop(dims, k, dim) ==
    IF k > Len(dims)
    THEN [raised |-> FALSE, dim |-> dim]
    ELSE IF dim # 1 /\ dims[k] # 1 /\ dims[k] # dim
         THEN [raised |-> TRUE, dim |-> dim]
         ELSE IF dims[k] > dim
              THEN DimLoop(dims, k + 1, dims[k])
              ELSE DimLoop(dims, k + 1, dim)

broadcast_shapes_NoFinalReverse(shapes) ==
    LET cols == AlignedDims(shapes)
        res == [p \in 1..Len(cols) |-> DimLoop(cols[p], 1, 1)]
    IN  IF \E p \in 1..Len(cols) : res[p].raised
        THEN Raise("ValueError")
        ELSE PyTuple([p \in 1..Len(cols) |-> res[p].dim])

broadcast_shapes(shapes) ==
    LET cols == AlignedDims(shapes)
        res == [p \in 1..Len(cols) |-> DimLoop(cols[p], 1, 1)]
    IN  IF \E p \in 1..Len(cols) : res[p].raised
        THEN Raise("ValueError")
        ELSE PyTuple(reversed([p \in 1..Len(cols) |-> res[p].dim]))

Shapes == SeqsUpTo(0..MaxSize, MaxRank)

RECURSIVE TotalAxes(_)
TotalAxes(shapes) ==
    IF shapes = <<>> THEN 0 ELSE Len(Head(shapes)) + TotalAxes(Tail(shapes))

\* the caller puts one more shape in the argument list
PassShape ==
    /\ pc \in {"idle", "args"}
    /\ Len(args) < MaxShapes
    /\ \E s \in Shapes :
          /\ TotalAxes(args) + Len(s) <= MaxTotalAxes
          /\ args' = Append(args, s)
    /\ fn' = "broadcast_shapes"
    /\ pc' = "args"
    /\ UNCHANGED <<locals, ret>>

BroadcastShapes ==
    /\ pc \in {"idle", "args"}
    /\ ret' = broadcast_shapes(args)
    /\ fn' = "broadcast_shapes"
    /\ pc' = "done"
    /\ locals' = [depth |-> 1]
    /\ UNCHANGED args

NextBroadcast ==
    \/ PassShape
    \/ BroadcastShapes

SpecBroadcast == Init /\ [][NextBroadcast]_vars

BroadcastDone ==
    /\ fn = "broadcast_shapes"
    /\ pc = "done"

\* the size shape s has at the p-th position from the right, 1 when s is
\* shorter (left padding)
SizeAt(s, p) == IF p <= Len(s) THEN s[Len(s) + 1 - p] ELSE 1

LongestRank(shapes) ==
    IF shapes = <<>> THEN 0 ELSE Max({Len(shapes[i]) : i \in 1..Len(shapes)})

Orderings(n) ==
    {f \in [1..n -> 1..n] : \A i, j \in 1..n : f[i] = f[j] => i = j}

\* C1: the outcome of broadcast_shapes (the shape, or the failure) is the
\* same for every ordering of the shapes passed.
C1_OrderIndependent ==
    BroadcastDone
        => \A f \in Orderings(Len(args)) :
              broadcast_shapes([i \in 1..Len(args) |-> args[f[i]]]) = ret

\* C2: broadcast_shapes fails whenever two of its shapes have, at the same
\* right-aligned position, sizes that both differ from 1 and from each other.
C2_ConflictFails ==
    (/\ BroadcastDone
     /\ \E p \in 1..LongestRank(args) : \E i, j \in 1..Len(args) :
           /\ SizeAt(args[i], p) # 1
           /\ SizeAt(args[j], p) # 1
           /\ SizeAt(args[i], p) # SizeAt(args[j], p))
        => ret = Raise("ValueError")

C4_LeftNestedAssociative ==
    (BroadcastDone /\ Len(args) = 3)
        => LET R == broadcast_shapes(<<args[1], args[2]>>)
           IN  IF R.t = "raise"
               THEN ret.t = "raise"
               ELSE ret = broadcast_shapes(<<R.v, args[3]>>)

\* A = (2,1), B = (3,), C = (1,): R = (2,3) and both outcomes are (2,3)
C4_Witness ==
    /\ BroadcastDone
    /\ args = <<<<2, 1>>, <<3>>, <<1>>>>
    /\ ret = PyTuple(<<2, 3>>)
    /\ broadcast_shapes(<<args[1], args[2]>>) = PyTuple(<<2, 3>>)

(***************************************************************************)
(* Manifolds.  An object is written as the sequence of the classes met     *)
(* along its base links: <<"Scaled", "Scaled", "Sphere">> is a Scaled      *)
(* whose base is a Scaled whose base is a Sphere; an object that is not a  *)
(* Scaled has no base and is a sequence of length one.  A sequence is      *)
(* finite, so the chain of base links has no cycle.                        *)
(***************************************************************************)
\* largest number of Scaled wrappers around a manifold
MaxWraps == 3

PyBool(b) == [t |-> "bool", v |-> b]

\* the class each class derives from; "object" is the root
Parent ==
    [Manifold      |-> "object",
     Scaled        |-> "Manifold",
     Sphere        |-> "Manifold",
     Stereographic |-> "Manifold",
     PoincareBall  |-> "Stereographic"]

Classes == DOMAIN Parent \cup {"object"}

\* the manifold classes an instance can have besides Scaled
ConcreteClasses == {"Sphere", "Stereographic", "PoincareBall"}

RECURSIVE issubclass(_, _)
issubclass(c, d) ==
    IF c = d THEN TRUE
    ELSE IF c = "object" THEN FALSE
    ELSE issubclass(Parent[c], d)

isinstance(obj, cls) == issubclass(Head(obj), cls)

\* obj.base of a Scaled
base(obj) == Tail(obj)

\* a concrete manifold under n Scaled wrappers
Wrapped(c, n) == [k \in 1..(n + 1) |-> IF k <= n THEN "Scaled" ELSE c]

ManifoldObjects == {Wrapped(c, n) : c \in ConcreteClasses, n \in 0..MaxWraps}

\* what a caller may pass as instance: a manifold, or something else
Objects == ManifoldObjects \cup {<<"object">>}

\* the object at the end of the base links
Terminal(obj) == <<obj[Len(obj)]>>

(***************************************************************************)
(* canonical_manifold, statement by statement                              *)
(***************************************************************************)
CanonicalManifold ==
    /\ pc = "idle"
    /\ \E m \in ManifoldObjects :
          /\ args' = [manifold |-> m]
          /\ locals' = [manifold |-> m, links |-> 0]
    /\ fn' = "canonical_manifold"
    /\ pc' = "cm_while"
    /\ UNCHANGED ret

\* the while statement with one base link only (an if)
CanonicalManifoldLoop_Once ==
    /\ pc = "cm_while"
    /\ isinstance(locals.manifold, "Scaled")
    /\ locals' = [manifold |-> base(locals.manifold), links |-> locals.links + 1]
    /\ ret' = base(locals.manifold)
    /\ pc' = "done"
    /\ UNCHANGED <<fn, args>>

CanonicalManifoldLoop ==
    /\ pc = "cm_while"
    /\ isinstance(locals.manifold, "Scaled")
    /\ locals' = [manifold |-> base(locals.manifold), links |-> locals.links + 1]
    /\ UNCHANGED <<fn, pc, args, ret>>

CanonicalManifoldReturn ==
    /\ pc = "cm_while"
    /\ ~isinstance(locals.manifold, "Scaled")
    /\ ret' = locals.manifold
    /\ pc' = "done"
    /\ UNCHANGED <<fn, args, locals>>

(***************************************************************************)
(* ismanifold, statement by statement.  args.wrapped is the object the     *)
(* caller started from: the instance itself, or the object whose           *)
(* canonical_manifold the caller passes as instance.                       *)
(***************************************************************************)
Ismanifold ==
    /\ pc = "idle"
    /\ \E inst \in Objects, cls \in Classes :
          /\ args' = [instance |-> inst, cls |-> cls, wrapped |-> inst]
          /\ locals' = [instance |-> inst, links |-> 0]
    /\ fn' = "ismanifold"
    /\ pc' = "im_check"
    /\ UNCHANGED ret

IsmanifoldOfCanonical ==
    /\ pc = "done"
    /\ fn = "canonical_manifold"
    /\ \E cls \in Classes :
          args' = [instance |-> ret, cls |-> cls, wrapped |-> args.manifold]
    /\ locals' = [instance |-> ret, links |-> 0]
    /\ fn' = "ismanifold"
    /\ pc' = "im_check"
    /\ UNCHANGED ret

IsmanifoldCheck ==
    /\ pc = "im_check"
    /\ IF ~issubclass(args.cls, "Manifold")
       THEN ret' = Raise("TypeError") /\ pc' = "done"
       ELSE IF ~isinstance(locals.instance, "Manifold")
            THEN ret' = PyBool(FALSE) /\ pc' = "done"
            ELSE ret' = ret /\ pc' = "im_while"
    /\ UNCHANGED <<fn, args, locals>>

\* no while statement: the instance check is made on the wrapper itself
IsmanifoldLoop_NoUnwrap ==
    /\ pc = "im_while"
    /\ isinstance(locals.instance, "Scaled")
    /\ ret' = PyBool(isinstance(locals.instance, args.cls))
    /\ pc' = "done"
    /\ UNCHANGED <<fn, args, locals>>

IsmanifoldLoop ==
    /\ pc = "im_while"
    /\ isinstance(locals.instance, "Scaled")
    /\ locals' = [instance |-> base(locals.instance), links |-> locals.links + 1]
    /\ UNCHANGED <<fn, pc, args, ret>>

IsmanifoldReturn ==
    /\ pc = "im_while"
    /\ ~isinstance(locals.instance, "Scaled")
    /\ ret' = PyBool(isinstance(locals.instance, args.cls))
    /\ pc' = "done"
    /\ UNCHANGED <<fn, args, locals>>

NextManifold ==
    \/ CanonicalManifold
    \/ CanonicalManifoldLoop
    \/ CanonicalManifoldReturn
    \/ Ismanifold
    \/ IsmanifoldOfCanonical
    \/ IsmanifoldCheck
    \/ IsmanifoldLoop
    \/ IsmanifoldReturn

SpecManifold == Init /\ [][NextManifold]_vars

\* a call that is running keeps running: the code is sequential
SpecManifoldFair == SpecManifold /\ WF_vars(NextManifold)

\* C8: for a manifold under any number of Scaled wrappers and a class cls
\* that is a manifold class, ismanifold of the wrapped object and ismanifold
\* of its canonical_manifold return the same boolean: whether the manifold
\* at the end of the base links is an instance of cls.
C8_IsmanifoldSeesThroughScaled ==
    (/\ fn = "ismanifold"
     /\ pc = "done"
     /\ args.wrapped \in ManifoldObjects
     /\ issubclass(args.cls, "Manifold"))
        => ret = PyBool(issubclass(Terminal(args.wrapped)[1], args.cls))

\* ismanifold(Scaled(Scaled(PoincareBall)), Stereographic) is True
C8_Witness ==
    /\ fn = "ismanifold"
    /\ pc = "done"
    /\ args = [instance |-> <<"Scaled", "Scaled", "PoincareBall">>,
               cls |-> "Stereographic",
               wrapped |-> <<"Scaled", "Scaled", "PoincareBall">>]
    /\ ret = PyBool(TRUE)

\* C9: canonical_manifold of a manifold under N >= 0 Scaled wrappers
\* terminates, returning the manifold at the end of the base links after
\* following exactly N of them (its argument itself when N = 0).
C9_CanonicalManifoldTerminates ==
    (fn = "canonical_manifold" /\ pc = "cm_while")
        ~> (/\ pc = "done"
            /\ fn = "canonical_manifold"
            /\ ret = Terminal(args.manifold)
            /\ locals.links = Len(args.manifold) - 1
            /\ (Len(args.manifold) = 1 => ret = args.manifold))

C9_Witness ==
    /\ fn = "canonical_manifold"
    /\ pc = "done"
    /\ args.manifold = <<"Scaled", "Scaled", "Sphere">>
    /\ locals.links = 2
    /\ ret = <<"Sphere">>

(***************************************************************************)
(* drop_dims.  A tensor is its shape and its elements, one per coordinate  *)
(* tuple (0-based, one coordinate per axis).                               *)
(***************************************************************************)
\* largest number of axes of a tensor given to drop_dims
MaxTensorRank == 3
\* largest axis size of a tensor given to drop_dims
MaxTensorSize == 4
\* largest number of elements of a tensor given to drop_dims
MaxElements == 24
\* largest number of axis references in dims
MaxDropDims == 2

\* functools.reduce(operator.mul, items, 1)
RECURSIVE prod(_)
prod(items) ==
    IF items = <<>> THEN 1 ELSE Head(items) * prod(Tail(items))

\* the coordinate tuples of a tensor of this shape
RECURSIVE Coords(_)
Coords(shape) ==
    IF shape = <<>>
    THEN {<<>>}
    ELSE {<<i>> \o c : i \in 0..(Head(shape) - 1), c \in Coords(Tail(shape))}

\* position of the element at coordinates c in row-major order
RECURSIVE Offset(_, _)
Offset(shape, c) ==
    IF shape = <<>>
    THEN 0
    ELSE Head(c) * prod(Tail(shape)) + Offset(Tail(shape), Tail(c))

\* the tensor of this shape whose elements are 0, 1, 2, ... in row-major
\* order, so that no two elements are equal
Arange(shape) ==
    [t |-> "tensor",
     shape |-> shape,
     data |-> [c \in Coords(shape) |-> Offset(shape, c)]]

SliceAll == [t |-> "slice"]

\* tensor[slc] for slc a tuple with one item per axis, each slice(None) or
\* an int: an int selects that index and removes the axis, and must lie in
\* [-size, size - 1]
GetItem(tensor, slc) ==
    LET r == Len(tensor.shape)
        keptAxes == {k \in 1..r : slc[k].t = "slice"}
        pos(k) == Cardinality({j \in keptAxes : j <= k})
        axisOf(j) == CHOOSE k \in keptAxes : pos(k) = j
        newshape == [j \in 1..Cardinality(keptAxes) |-> tensor.shape[axisOf(j)]]
        full(c) == [k \in 1..r |->
                      IF k \in keptAxes
                      THEN c[pos(k)]
                      ELSE PyMod(slc[k].v, tensor.shape[k])]
    IN  IF \E k \in 1..r :
              /\ slc[k].t = "int"
              /\ (slc[k].v < -tensor.shape[k] \/ slc[k].v >= tensor.shape[k])
        THEN Raise("IndexError")
        ELSE [t |-> "tensor",
              shape |-> newshape,
              data |-> [c \in Coords(newshape) |-> tensor.data[full(c)]]]

drop_dims(tensor, dims) ==
    LET maxdim == Len(tensor.shape)
        cdims == canonical_dims(dims, maxdim)
        slc == [k \in 1..maxdim |->
                   IF \A j \in 1..Len(cdims) : cdims[j] # k - 1
                   THEN SliceAll
                   ELSE PyInt(0)]
    IN  GetItem(tensor, slc)

TensorShapes ==
    {s \in SeqsUpTo(0..MaxTensorSize, MaxTensorRank) : prod(s) <= MaxElements}

DropDims ==
    /\ pc = "idle"
    /\ \E shape \in TensorShapes :
          \E dims \in SeqsUpTo(AxisRefs(Len(shape)), MaxDropDims) :
             /\ args' = [shape |-> shape, dims |-> dims]
             /\ ret' = drop_dims(Arange(shape), dims)
    /\ fn' = "drop_dims"
    /\ pc' = "done"
    /\ locals' = [depth |-> 1]

NextDrop ==
    DropDims

SpecDrop == Init /\ [][NextDrop]_vars

\* axis i (0-based) of a tensor of rank r is referenced by dims
Referenced(i, r, dims) ==
    \E k \in 1..Len(dims) : dims[k] = i \/ dims[k] = i - r

\* the result the claim describes: the axes not referenced, in their order
\* and with their sizes, each element being the input element at the same
\* coordinates with index 0 at every referenced axis
DropsReferencedAxes(shape, dims, out) ==
    LET r == Len(shape)
        kept == {k \in 1..r : ~Referenced(k - 1, r, dims)}
        pos(k) == Cardinality({j \in kept : j <= k})
    IN  /\ out.t = "tensor"
        /\ Len(out.shape) = Cardinality(kept)
        /\ \A k \in kept : out.shape[pos(k)] = shape[k]
        /\ DOMAIN out.data = Coords(out.shape)
        /\ \A c \in Coords(out.shape) :
              out.data[c]
                 = Arange(shape).data[[k \in 1..r |->
                                         IF k \in kept THEN c[pos(k)] ELSE 0]]

\* C10 as stated: for every tensor and every collection of valid axis
\* references, drop_dims returns the tensor of the axes not referenced, in
\* order and with their sizes, whose elements are the input's at index 0 of
\* the referenced axes.
C10_DropsReferencedAxes ==
    (fn = "drop_dims" /\ pc = "done")
        => DropsReferencedAxes(args.shape, args.dims, ret)

\* C10 amended: so it is when every referenced axis has at least one
\* element; when a referenced axis has size 0, there is no index 0 to
\* select and drop_dims raises IndexError.
C10_DropsReferencedAxesOrIndexError ==
    (fn = "drop_dims" /\ pc = "done")
        => IF \E k \in 1..Len(args.shape) :
                 /\ Referenced(k - 1, Len(args.shape), args.dims)
                 /\ args.shape[k] = 0
           THEN ret = Raise("IndexError")
           ELSE DropsReferencedAxes(args.shape, args.dims, ret)

\* shape (2,3,4), dims (-2,): the result has shape (2,4) and its element at
\* (1,3) is the input's at (1,0,3)
C10_Witness ==
    /\ fn = "drop_dims"
    /\ pc = "done"
    /\ args = [shape |-> <<2, 3, 4>>, dims |-> <<-2>>]
    /\ ret.t = "tensor"
    /\ ret.shape = <<2, 4>>
    /\ ret.data[<<1, 3>>] = Arange(<<2, 3, 4>>).data[<<1, 0, 3>>]

====
